---- MODULE Spec2Model ----
(***************************************************************************)
(* tev's Python IPC client (src/python/tev.py, class Ipc; the legacy       *)
(* src/python/ipc.py, class TevIpc, has the same lifecycle and the same    *)
(* update_image).  One Ipc object, the socket objects it creates, and what *)
(* each call writes to its connection.                                     *)
(*                                                                         *)
(* A packet (the bytearray data_bytes) is a sequence of fields, one per    *)
(* data_bytes.extend(...) of the source: [t |-> struct format, v |-> value]*)
(* for struct.pack, [t |-> "s", v |-> bytes] for an encoded string and     *)
(* [t |-> "f", v |-> k] for k float32 values.  len(data_bytes) is the sum  *)
(* of the fields' byte sizes.                                              *)
(***************************************************************************)
EXTENDS Integers, Sequences, FiniteSets

VARIABLES
    _socket,    \* Ipc._socket: 0 is None, h > 0 is the socket object sockets[h]
    sockets,    \* the socket objects created so far: [state, connected, broken, released]
    wire,       \* what sendall has written, in order: [call, conn, pkt, sent]
    ncalls,     \* the number of calls made on the Ipc object
    last        \* the last call: its name, arguments, result and the state before it

vars == <<_socket, sockets, wire, ncalls, last>>

-----------------------------------------------------------------------------
(* Bounds of the model and constants of the program *)

MaxCalls == 3

\* the largest buffer side of the tiling specification
MaxDim == 257

TileSize == 128

MaxInt32 == 2147483647

MinInt32 == -MaxInt32 - 1

-----------------------------------------------------------------------------
(* Strings are sequences of Unicode code points; bytes are 0..255 *)

S_empty == <<>>
S_a     == <<97>>
S_R     == <<82>>
S_G     == <<71>>
S_B     == <<66>>
S_eacute == <<233>>
S_euro  == <<8364>>

\* bytes(s, "UTF-8") of one code point
Utf8Char(c) ==
    IF c < 128 THEN <<c>>
    ELSE IF c < 2048 THEN <<192 + (c \div 64), 128 + (c % 64)>>
    ELSE IF c < 65536 THEN
        <<224 + (c \div 4096), 128 + ((c \div 64) % 64), 128 + (c % 64)>>
    ELSE <<240 + (c \div 262144), 128 + ((c \div 4096) % 64),
           128 + ((c \div 64) % 64), 128 + (c % 64)>>

RECURSIVE Utf8(_)
Utf8(s) == IF s = <<>> THEN <<>> ELSE Utf8Char(Head(s)) \o Utf8(Tail(s))

\* bytes(s, "ascii") raises UnicodeEncodeError on a code point above 127
AsciiOk(s) == \A k \in 1..Len(s) : s[k] < 128

-----------------------------------------------------------------------------
(* struct.pack and bytearray *)

InInt32(v) == MinInt32 <= v /\ v <= MaxInt32

\* a + b for b >= 0, as struct.pack("<i", a + b) sees it: in range or struct.error
SumInInt32(a, b) == a <= MaxInt32 - b /\ a >= MinInt32

PackU32(n) == [t |-> "I", v |-> n]
PackI32(n) == [t |-> "i", v |-> n]
PackI64(n) == [t |-> "q", v |-> n]
PackI8(n)  == [t |-> "b", v |-> n]
PackBool(b) == [t |-> "b", v |-> IF b THEN 1 ELSE 0]
Bytes(bs)  == [t |-> "s", v |-> bs]
Floats(k)  == [t |-> "f", v |-> k]

Terminator == PackI8(0)

FieldSize(f) ==
    CASE f.t = "I" -> 4
      [] f.t = "i" -> 4
      [] f.t = "q" -> 8
      [] f.t = "b" -> 1
      [] f.t = "s" -> Len(f.v)
      [] f.t = "f" -> 4 * f.v

\* len(data_bytes)
RECURSIVE BytesLen(_)
BytesLen(data) ==
    IF data = <<>> THEN 0 ELSE FieldSize(Head(data)) + BytesLen(Tail(data))

\* the header left as reserved: the placeholder is sent
PatchLengthNever(data) == data

\* data_bytes[0:4] = struct.pack("<I", len(data_bytes))
PatchLength(data) == <<PackU32(BytesLen(data))>> \o Tail(data)

\* for channel_name in names: extend(bytes(channel_name, ...)); extend(terminator)
RECURSIVE CStrings(_)
CStrings(names) ==
    IF names = <<>> THEN <<>>
    ELSE <<Bytes(Utf8(Head(names))), Terminator>> \o CStrings(Tail(names))

ReservedLength == PackU32(0)

-----------------------------------------------------------------------------
(* Packet types *)

OpenImage == 7
ReloadImage == 1
CloseImage == 2
CreateImage == 4
UpdateImage == 6
VectorGraphics == 8

-----------------------------------------------------------------------------
(* The packet each single-packet command builds: [err, data] *)

Built(data) == [err |-> "", data |-> data]
Raised(e)   == [err |-> e, data |-> <<>>]

open_image_packet(a) ==
    Built(PatchLength(
        <<ReservedLength, PackI8(OpenImage), PackBool(a.grab_focus),
          Bytes(Utf8(a.path)), Terminator,
          Bytes(Utf8(a.channel_selector)), Terminator>>))

reload_image_packet(a) ==
    Built(PatchLength(
        <<ReservedLength, PackI8(ReloadImage), PackBool(a.grab_focus),
          Bytes(Utf8(a.name)), Terminator>>))

close_image_packet(a) ==
    Built(PatchLength(
        <<ReservedLength, PackI8(CloseImage),
          Bytes(Utf8(a.name)), Terminator>>))

create_image_packet(a) ==
    IF ~InInt32(a.width) \/ ~InInt32(a.height) THEN Raised("StructError")
    ELSE IF \E k \in 1..Len(a.channel_names) : ~AsciiOk(a.channel_names[k])
    THEN Raised("UnicodeError")
    ELSE Built(PatchLength(
        <<ReservedLength, PackI8(CreateImage), PackBool(a.grab_focus),
          Bytes(Utf8(a.name)), Terminator,
          PackI32(a.width), PackI32(a.height),
          PackI32(Len(a.channel_names))>>
        \o CStrings(a.channel_names)))

-----------------------------------------------------------------------------
(* update_image: the tiles and the packet of one tile *)

Min(a, b) == IF a < b THEN a ELSE b

\* s[0:n]: the first n elements, or all of s when it has fewer
Slice(s, n) == SubSeq(s, 1, Min(n, Len(s)))

\* list(range(start, stop, step)) for step > 0
RECURSIVE Range(_, _, _)
Range(start, stop, step) ==
    IF start >= stop THEN <<>>
    ELSE <<start>> \o Range(start + step, stop, step)

\* perform_tiling ignored
tile_size_Always128(a) == <<TileSize, TileSize>>

\* tile_size = [128, 128] if perform_tiling else image.shape[0:2]
tile_size(a) ==
    IF a.perform_tiling THEN <<TileSize, TileSize>> ELSE Slice(a.shape, 2)

\* n_channels = 1 if len(image.shape) < 3 else image.shape[2]
n_channels(a) == IF Len(a.shape) < 3 THEN 1 ELSE a.shape[3]

channel_offsets(a) == [k \in 1..n_channels(a) |-> k - 1]
\* the strides of a planar layout: one value from a channel's pixel to the next
channel_strides_Planar(a) == [k \in 1..n_channels(a) |-> 1]

channel_strides(a) == [k \in 1..n_channels(a) |-> n_channels(a)]

\* the two loops swapped: for j in js: for i in is
PairsColumnMajor(is, js) ==
    [k \in 1..(Len(is) * Len(js)) |->
        <<is[((k - 1) % Len(is)) + 1], js[((k - 1) \div Len(is)) + 1]>>]

\* for i in is: for j in js: the (i, j) in the order the loops visit them
Pairs(is, js) ==
    [k \in 1..(Len(is) * Len(js)) |->
        <<is[((k - 1) \div Len(js)) + 1], js[((k - 1) % Len(js)) + 1]>>]

\* range() raises ValueError on a step of 0: the outer one at once, the inner
\* one in the first pass of the outer loop
RangeError(a) ==
    \/ tile_size(a)[1] = 0
    \/ a.shape[1] > 0 /\ tile_size(a)[2] = 0

\* the tile origins (i, j) of the two nested loops
TileOrigins(a) ==
    IF RangeError(a) THEN <<>>
    ELSE Pairs(Range(0, a.shape[1], tile_size(a)[1]),
               Range(0, a.shape[2], tile_size(a)[2]))

\* the tile not clipped at the edge of the buffer
tile_shape_Padded(a, ij) == tile_size(a)

\* tile_dense.shape[0:2] of the tile at (i, j)
tile_shape(a, ij) ==
    <<Min(ij[1] + tile_size(a)[1], a.shape[1]) - ij[1],
      Min(ij[2] + tile_size(a)[2], a.shape[2]) - ij[2]>>

RECURSIVE Product(_)
Product(dims) == IF dims = <<>> THEN 1 ELSE Head(dims) * Product(Tail(dims))

\* the number of float32 values of tile_dense.tobytes(): the tile keeps every
\* axis after the first two whole (tile = image[i:.., j:.., ...])
tile_values(a, ij) ==
    tile_shape(a, ij)[1] * tile_shape(a, ij)[2]
        * Product(SubSeq(a.shape, 3, Len(a.shape)))

\* for v in vs: data_bytes.extend(struct.pack("<q", v))
PackAllI64(vs) == [k \in 1..Len(vs) |-> PackI64(vs[k])]

update_image_packet(a, ij) ==
    IF ~SumInInt32(a.x, ij[2]) \/ ~SumInInt32(a.y, ij[1]) THEN Raised("StructError")
    ELSE Built(PatchLength(
        <<ReservedLength, PackI8(UpdateImage), PackBool(a.grab_focus),
          Bytes(Utf8(a.name)), Terminator,
          PackI32(n_channels(a))>>
        \o CStrings(Slice(a.channel_names, n_channels(a)))
        \o <<PackI32(a.x + ij[2]), PackI32(a.y + ij[1]),
             PackI32(tile_shape(a, ij)[2]), PackI32(tile_shape(a, ij)[1])>>
        \o PackAllI64(channel_offsets(a))
        \o PackAllI64(channel_strides(a))
        \o <<Floats(tile_values(a, ij))>>))

-----------------------------------------------------------------------------
(* Vector graphics commands: VgCommand(type, data), data None or floats *)

VgCommand(type, data) == [type |-> type, is_none |-> FALSE, data |-> data]
VgCommandNoData(type) == [type |-> type, is_none |-> TRUE, data |-> <<>>]

vg_save == VgCommandNoData(0)
vg_restore == VgCommandNoData(1)
vg_fill_color(r, g, b, al) == VgCommand(2, <<r, g, b, al>>)
vg_fill == VgCommandNoData(3)
vg_stroke_color(r, g, b, al) == VgCommand(4, <<r, g, b, al>>)
vg_stroke == VgCommandNoData(5)
vg_begin_path == VgCommandNoData(6)
vg_close_path == VgCommandNoData(7)
vg_path_winding(num) == VgCommand(8, <<num>>)
vg_debug_dump_path_cache == VgCommandNoData(9)
vg_move_to(x, y) == VgCommand(10, <<x, y>>)
vg_line_to(x, y) == VgCommand(11, <<x, y>>)
vg_arc_to(x1, y1, x2, y2, radius) == VgCommand(12, <<x1, y1, x2, y2, radius>>)
vg_arc(cx, cy, radius, angle_begin, angle_end, dir) ==
    VgCommand(13, <<cx, cy, radius, angle_begin, angle_end, dir>>)
vg_bezier_to(c1x, c1y, c2x, c2y, x, y) == VgCommand(14, <<c1x, c1y, c2x, c2y, x, y>>)
vg_circle(cx, cy, radius) == VgCommand(15, <<cx, cy, radius>>)
vg_ellipse(cx, cy, radius_x, radius_y) == VgCommand(16, <<cx, cy, radius_x, radius_y>>)
vg_quad_to(cx, cy, x, y) == VgCommand(17, <<cx, cy, x, y>>)
vg_rect(x, y, width, height) == VgCommand(18, <<x, y, width, height>>)
vg_rounded_rect(x, y, width, height, radius) ==
    VgCommand(19, <<x, y, width, height, radius>>)
vg_rounded_rect_varying(x, y, width, height, tl, tr, br, bl) ==
    VgCommand(20, <<x, y, width, height, tl, tr, br, bl>>)

\* np.array(command.data, dtype="<f").tobytes(): the float32 values, 4 bytes each
FloatValues(vs) == [t |-> "f", v |-> Len(vs), values |-> vs]

\* the loop over the commands without the write of command.data
RECURSIVE Commands_TagsOnly(_)
Commands_TagsOnly(cs) ==
    IF cs = <<>> THEN <<>>
    ELSE <<PackI8(Head(cs).type)>> \o Commands_TagsOnly(Tail(cs))

RECURSIVE Commands(_)
Commands(cs) ==
    IF cs = <<>> THEN <<>>
    ELSE (IF Head(cs).is_none THEN <<PackI8(Head(cs).type)>>
          ELSE <<PackI8(Head(cs).type), FloatValues(Head(cs).data)>>)
         \o Commands(Tail(cs))

update_vector_graphics_packet(a) ==
    Built(PatchLength(
        <<ReservedLength, PackI8(VectorGraphics), PackBool(a.grab_focus),
          Bytes(Utf8(a.name)), Terminator,
          PackBool(a.append), PackU32(Len(a.commands))>>
        \o Commands(a.commands)))

-----------------------------------------------------------------------------
(* Sockets *)

\* socket.socket(AF_INET, SOCK_STREAM): a descriptor, open and not connected
NewSocket == [state |-> "open", connected |-> FALSE, broken |-> FALSE, released |-> 0]

\* socket.connect: the peer accepts, or OSError is raised and the socket stays open
Connect(s, accepted) == IF accepted THEN [s EXCEPT !.connected = TRUE] ELSE s

\* socket.__exit__: close() unless already closed; the descriptor is released once
SocketExit(s) ==
    IF s.state = "closed" THEN s
    ELSE [s EXCEPT !.state = "closed", !.released = @ + 1]

\* the bytes a failing sendall wrote before the error: none, or a part of the packet
PartWritten(data, part) == IF part THEN BytesLen(data) \div 2 ELSE 0

\* a send that queues the packet and returns before anything is written
SendallQueued(st, h, call, data, env) == [st EXCEPT !.handed = Append(@, data)]

\* self._socket.sendall(data_bytes): on a socket that is not connected (or whose
\* connection broke) OSError and nothing written; the transport may fail the
\* env.failAt-th sendall of the call part-way, which breaks the connection
Sendall(st, h, call, data, env) ==
    LET handed == Append(st.handed, data)
        entry(n) == [call |-> call, conn |-> h, pkt |-> data, sent |-> n]
    IN  IF \/ st.sockets[h].state # "open"
           \/ ~st.sockets[h].connected
           \/ st.sockets[h].broken
        THEN [st EXCEPT !.handed = handed, !.res = "IOError"]
        ELSE IF env.failAt = Len(handed)
        THEN [st EXCEPT !.handed = handed, !.res = "IOError",
                        !.sockets[h].broken = TRUE,
                        !.wire = IF PartWritten(data, env.part) = 0 THEN @
                                 ELSE Append(@, entry(PartWritten(data, env.part)))]
        ELSE [st EXCEPT !.handed = handed,
                        !.wire = Append(@, entry(BytesLen(data)))]

\* the state a call works on: res is "" while the call has not raised
Running == [wire |-> wire, sockets |-> sockets, handed |-> <<>>, res |-> ""]

Before == [socket |-> _socket, sockets |-> sockets, wire |-> wire]

Finish(op, a, st) ==
    /\ wire' = st.wire
    /\ sockets' = st.sockets
    /\ ncalls' = ncalls + 1
    /\ last' = [op |-> op, a |-> a, res |-> IF st.res = "" THEN "ok" ELSE st.res,
                handed |-> st.handed, pre |-> Before]

\* if self._socket is None: raise Exception("Communication was not started")
NotStarted == _socket = 0

\* a command that builds one packet and sends it
SinglePacket(op, a, built, env) ==
    /\ UNCHANGED _socket
    /\ IF NotStarted THEN Finish(op, a, [Running EXCEPT !.res = "StateError"])
       ELSE IF built.err # "" THEN Finish(op, a, [Running EXCEPT !.res = built.err])
       ELSE Finish(op, a, Sendall(Running, _socket, ncalls + 1, built.data, env))

\* the loops with the send wrapped in a try that swallows the error and goes on
RECURSIVE TileLoop_KeepsGoing(_, _, _, _, _)
TileLoop_KeepsGoing(st, a, tiles, k, env) ==
    IF k > Len(tiles) THEN st
    ELSE LET built == update_image_packet(a, tiles[k]) IN
         IF built.err # "" THEN [st EXCEPT !.res = built.err]
         ELSE TileLoop_KeepsGoing(Sendall(st, _socket, ncalls + 1, built.data, env),
                                  a, tiles, k + 1, env)

\* the for loops of update_image from the k-th tile on
RECURSIVE TileLoop(_, _, _, _, _)
TileLoop(st, a, tiles, k, env) ==
    IF k > Len(tiles) \/ st.res # "" THEN st
    ELSE LET built == update_image_packet(a, tiles[k]) IN
         IF built.err # "" THEN [st EXCEPT !.res = built.err]
         ELSE TileLoop(Sendall(st, _socket, ncalls + 1, built.data, env),
                       a, tiles, k + 1, env)

-----------------------------------------------------------------------------
(* The arguments the calls are made with *)

RGB == <<S_R, S_G, S_B>>

OpenImageArgs ==
    { [path |-> S_a, channel_selector |-> S_empty, grab_focus |-> TRUE],
      [path |-> S_euro, channel_selector |-> S_R, grab_focus |-> FALSE] }

ReloadImageArgs == { [name |-> S_eacute, grab_focus |-> TRUE] }

CloseImageArgs == { [name |-> S_a], [name |-> S_empty] }

CreateImageArgs ==
    { [name |-> S_a, width |-> 200, height |-> 300, channel_names |-> RGB,
       grab_focus |-> TRUE],
      [name |-> S_eacute, width |-> 1, height |-> 1, channel_names |-> <<>>,
       grab_focus |-> FALSE],
      [name |-> S_a, width |-> 1, height |-> 1, channel_names |-> <<S_eacute>>,
       grab_focus |-> TRUE] }

Image(name, shape, channel_names, x, y, perform_tiling) ==
    [name |-> name, shape |-> shape, channel_names |-> channel_names,
     x |-> x, y |-> y, grab_focus |-> FALSE, perform_tiling |-> perform_tiling]

\* one pixel; two tile rows and columns with and without tiling and with more
\* names than channels; too few names; an origin whose second tile column does
\* not fit an int32; an empty buffer sent untiled
UpdateImageArgs ==
    { Image(S_a, <<1, 1>>, <<S_R>>, 0, 0, TRUE),
      Image(S_a, <<TileSize + 1, TileSize + 1, 2>>, RGB, 5, 7, TRUE),
      Image(S_a, <<TileSize + 1, TileSize + 1, 2>>, RGB, 5, 7, FALSE),
      Image(S_eacute, <<2, 2, 3>>, <<S_R, S_G>>, 0, 0, TRUE),
      Image(S_a, <<1, TileSize + 1>>, <<S_R>>, MaxInt32 - TileSize + 1, 0, TRUE),
      Image(S_a, <<0, 0>>, <<S_R>>, 0, 0, FALSE),
      Image(S_a, <<2, 2, 0>>, <<>>, 0, 0, TRUE),
      Image(S_a, <<1, 1, 2, 2>>, RGB, 0, 0, TRUE) }

UpdateVectorGraphicsArgs ==
    { [name |-> S_a, commands |-> <<vg_begin_path, vg_rect(0, 0, 64, 64), vg_stroke>>,
       append |-> FALSE, grab_focus |-> FALSE],
      [name |-> S_euro, commands |-> <<vg_path_winding(1), vg_move_to(1, 2)>>,
       append |-> TRUE, grab_focus |-> TRUE],
      [name |-> S_a, commands |-> <<>>, append |-> FALSE, grab_focus |-> FALSE] }

\* what the transport does to the sendall calls of one call that makes up to n
Env(n) == [failAt : 0..n, part : BOOLEAN]

-----------------------------------------------------------------------------
(* The operations of Ipc *)

Init ==
    /\ _socket = 0
    /\ sockets = <<>>
    /\ wire = <<>>
    /\ ncalls = 0
    /\ last = [op |-> "init", a |-> <<>>, res |-> "ok", handed |-> <<>>,
               pre |-> [socket |-> 0, sockets |-> <<>>, wire |-> <<>>]]

\* __enter__ without its check
AlreadyStartedNever == FALSE

\* if self._socket is not None: raise Exception("Communication already started")
AlreadyStarted == _socket # 0

\* Ipc.__enter__
EnterCall ==
    /\ IF AlreadyStarted
       THEN /\ UNCHANGED _socket
            /\ Finish("enter", <<>>, [Running EXCEPT !.res = "StateError"])
       ELSE \E accepted \in BOOLEAN :
            /\ _socket' = Len(sockets) + 1
            /\ Finish("enter", <<>>,
                      [Running EXCEPT
                          !.sockets = Append(@, Connect(NewSocket, accepted)),
                          !.res = IF accepted THEN "" ELSE "IOError"])

Enter == ncalls < MaxCalls /\ EnterCall

\* Ipc.__exit__
ExitCall ==
    /\ UNCHANGED _socket
    /\ IF NotStarted
       THEN Finish("exit", <<>>, [Running EXCEPT !.res = "StateError"])
       ELSE Finish("exit", <<>>,
                   [Running EXCEPT !.sockets[_socket] = SocketExit(@)])

Exit == ncalls < MaxCalls /\ ExitCall

open_image ==
    \E a \in OpenImageArgs, env \in Env(1) :
        /\ ncalls < MaxCalls
        /\ SinglePacket("open_image", a, open_image_packet(a), env)

reload_image ==
    \E a \in ReloadImageArgs, env \in Env(1) :
        /\ ncalls < MaxCalls
        /\ SinglePacket("reload_image", a, reload_image_packet(a), env)

close_image ==
    \E a \in CloseImageArgs, env \in Env(1) :
        /\ ncalls < MaxCalls
        /\ SinglePacket("close_image", a, close_image_packet(a), env)

create_image ==
    \E a \in CreateImageArgs, env \in Env(1) :
        /\ ncalls < MaxCalls
        /\ SinglePacket("create_image", a, create_image_packet(a), env)

update_vector_graphics ==
    \E a \in UpdateVectorGraphicsArgs, env \in Env(1) :
        /\ ncalls < MaxCalls
        /\ SinglePacket("update_vector_graphics", a, update_vector_graphics_packet(a), env)

\* update_image without its check of the names
NotEnoughNamesNever(a) == FALSE

\* if len(channel_names) < n_channels: raise Exception("Not enough channel names provided")
NotEnoughNames(a) == Len(a.channel_names) < n_channels(a)

update_image_call(a, env) ==
    /\ UNCHANGED _socket
    /\ IF NotStarted
       THEN Finish("update_image", a, [Running EXCEPT !.res = "StateError"])
       ELSE IF NotEnoughNames(a)
       THEN Finish("update_image", a, [Running EXCEPT !.res = "ConfigurationError"])
       ELSE IF RangeError(a)
       THEN Finish("update_image", a, [Running EXCEPT !.res = "ValueError"])
       ELSE Finish("update_image", a, TileLoop(Running, a, TileOrigins(a), 1, env))

update_image ==
    \E a \in UpdateImageArgs :
        \E env \in Env(Len(TileOrigins(a))) :
            /\ ncalls < MaxCalls
            /\ update_image_call(a, env)

Next ==
    \/ Enter
    \/ Exit
    \/ open_image
    \/ reload_image
    \/ close_image
    \/ create_image
    \/ update_image
    \/ update_vector_graphics

Spec == Init /\ [][Next]_vars

-----------------------------------------------------------------------------
(* The tiler on its own: one session, update_image over many buffers *)

Dims == {1, TileSize, TileSize + 1, 2 * TileSize, MaxDim}

\* every pair of sides tiled at a non-zero origin; some at the zero origin and
\* with a channel axis; small and large buffers untiled
TilingArgs ==
    { Image(S_a, <<h, w>>, <<S_R>>, 5, -7, TRUE) : h \in Dims, w \in Dims }
    \cup
    { Image(S_a, <<h, w>>, <<S_R>>, 0, 0, TRUE) : h \in {TileSize}, w \in {1, MaxDim} }
    \cup
    { Image(S_a, <<h, w, 2>>, RGB, 5, -7, TRUE) : h \in {1, MaxDim}, w \in {MaxDim} }
    \cup
    { Image(S_a, <<h, w>>, <<S_R>>, o[1], o[2], FALSE) :
        h \in {1, MaxDim}, w \in {TileSize, MaxDim}, o \in {<<5, -7>>} }
    \cup
    { Image(S_a, <<MaxDim, TileSize + 1, 2>>, RGB, 0, 0, FALSE) }

connect == ncalls < MaxCalls - 1 /\ EnterCall

tile_update ==
    \E a \in TilingArgs :
        \E env \in Env(Len(TileOrigins(a))) :
            /\ ncalls < MaxCalls - 1
            /\ update_image_call(a, env)

NextTiling ==
    \/ connect
    \/ tile_update

SpecTiling == Init /\ [][NextTiling]_vars

-----------------------------------------------------------------------------
(* The vector graphics encoder on its own: one drawing, the first packet of a *)
(* fresh connection, over many command lists                                   *)

\* one command of each of the 21 constructors
AllCommands ==
    << vg_save, vg_restore, vg_fill_color(1, 0, 0, 1), vg_fill,
       vg_stroke_color(0, 1, 0, 1), vg_stroke, vg_begin_path, vg_close_path,
       vg_path_winding(2), vg_debug_dump_path_cache, vg_move_to(3, 4),
       vg_line_to(5, 6), vg_arc_to(1, 2, 3, 4, 5), vg_arc(1, 2, 3, 0, 6, 1),
       vg_bezier_to(1, 2, 3, 4, 5, 6), vg_circle(7, 8, 9), vg_ellipse(1, 2, 3, 4),
       vg_quad_to(4, 3, 2, 1), vg_rect(0, 0, 64, 64), vg_rounded_rect(1, 2, 3, 4, 5),
       vg_rounded_rect_varying(1, 2, 3, 4, 5, 6, 7, 8) >>

Example == <<vg_begin_path, vg_rect(0, 0, 64, 64), vg_stroke>>

\* the empty list, every single command, every pair of commands, the list of
\* all of them and the example of ipc-example.py
CommandLists ==
    {<<>>, AllCommands, Example}
    \cup { <<AllCommands[i]>> : i \in 1..Len(AllCommands) }
    \cup { <<AllCommands[i], AllCommands[j]>> :
             i \in 1..Len(AllCommands), j \in 1..Len(AllCommands) }

DrawArgs ==
    { [name |-> S_a, commands |-> cs, append |-> FALSE, grab_focus |-> FALSE] :
        cs \in CommandLists }
    \cup
    { [name |-> S_euro, commands |-> Example, append |-> TRUE, grab_focus |-> TRUE] }

draw ==
    \E a \in DrawArgs, env \in Env(1) :
        /\ wire = <<>>
        /\ ~NotStarted
        /\ sockets[_socket].connected
        /\ ~sockets[_socket].broken
        /\ ncalls < MaxCalls - 1
        /\ SinglePacket("update_vector_graphics", a, update_vector_graphics_packet(a), env)

NextDrawing ==
    \/ connect
    \/ draw

SpecDrawing == Init /\ [][NextDrawing]_vars

-----------------------------------------------------------------------------
(* What a reader of the connection sees *)

\* the bytes of a packet, counted field by field from its end
RECURSIVE FrameBytes(_, _)
FrameBytes(pkt, k) == IF k = 0 THEN 0 ELSE FieldSize(pkt[k]) + FrameBytes(pkt, k - 1)

PacketType(pkt) == pkt[2].v

\* the fields of an UpdateImage packet, found as a reader finds them: past the
\* name and the channelCount names
ChannelCount(pkt) == pkt[6].v
RectX(pkt) == pkt[7 + 2 * ChannelCount(pkt)].v
RectY(pkt) == pkt[8 + 2 * ChannelCount(pkt)].v
RectW(pkt) == pkt[9 + 2 * ChannelCount(pkt)].v
RectH(pkt) == pkt[10 + 2 * ChannelCount(pkt)].v

\* the entries the last call added to the wire
Written == SubSeq(wire, Len(last.pre.wire) + 1, Len(wire))

IsCommand(op) ==
    op \in {"open_image", "reload_image", "close_image", "create_image",
            "update_image", "update_vector_graphics"}

\* the Session is Open: it holds a socket that is open and connected
IsOpen(sk, sks) == sk # 0 /\ sks[sk].state = "open" /\ sks[sk].connected

\* the Session was opened and has been closed
WasClosed(sk, sks) == sk # 0 /\ sks[sk].state = "closed" /\ sks[sk].connected

CeilDiv(n, d) == (n + d - 1) \div d

Disjoint(p, q) ==
    \/ RectX(p) + RectW(p) <= RectX(q)
    \/ RectX(q) + RectW(q) <= RectX(p)
    \/ RectY(p) + RectH(p) <= RectY(q)
    \/ RectY(q) + RectH(q) <= RectY(p)

RECURSIVE AreaSum(_, _)
AreaSum(es, k) ==
    IF k = 0 THEN 0 ELSE RectW(es[k].pkt) * RectH(es[k].pkt) + AreaSum(es, k - 1)

-----------------------------------------------------------------------------
(* C1: every packet handed to sendall, by any of the six commands, carries in *)
(* its 4-byte header the number of bytes of the whole packet, header included, *)
(* and never the placeholder 0; the same holds of every packet on the wire.    *)
C1_HeaderIsLength ==
    /\ \A k \in 1..Len(last.handed) :
        /\ last.handed[k][1].t = "I"
        /\ last.handed[k][1].v = FrameBytes(last.handed[k], Len(last.handed[k]))
        /\ last.handed[k][1].v # 0
    /\ \A k \in 1..Len(wire) :
        /\ wire[k].pkt[1].v = FrameBytes(wire[k].pkt, Len(wire[k].pkt))
        /\ wire[k].pkt[1].v # 0

\* a tiled update with a two-byte name character and a vector graphics packet
\* have both been written
C1_Witness ==
    /\ \E k \in 1..Len(wire) : PacketType(wire[k].pkt) = UpdateImage
    /\ \E k \in 1..Len(wire) :
        /\ PacketType(wire[k].pkt) = VectorGraphics
        /\ wire[k].pkt[1].v > 12

(* C2: a tiled update_image of an H x W buffer (H, W >= 1) at origin (x, y)   *)
(* that returns normally has sent ceil(H/T) * ceil(W/T) tiles whose rectangles *)
(* are pairwise disjoint and cover exactly [x, x+W) x [y, y+H) (they lie in    *)
(* it, are disjoint, and their areas add up to W * H); each is at most T x T,  *)
(* and a tile on the far edge is (dimension mod T) wide or high, or T when T   *)
(* divides the dimension.                                                      *)
C2_TilesPartition ==
    (/\ last.op = "update_image"
     /\ last.res = "ok"
     /\ last.a.perform_tiling
     /\ last.a.shape[1] >= 1
     /\ last.a.shape[2] >= 1)
    => LET H == last.a.shape[1]
           W == last.a.shape[2]
           T == TileSize
           edge(d) == IF d % T = 0 THEN T ELSE d % T
       IN  /\ Len(Written) = CeilDiv(H, T) * CeilDiv(W, T)
           /\ \A k \in 1..Len(Written) :
               LET p == Written[k].pkt IN
               /\ Written[k].sent = p[1].v
               /\ PacketType(p) = UpdateImage
               /\ RectW(p) >= 1 /\ RectW(p) <= T
               /\ RectH(p) >= 1 /\ RectH(p) <= T
               /\ RectX(p) >= last.a.x /\ RectX(p) + RectW(p) <= last.a.x + W
               /\ RectY(p) >= last.a.y /\ RectY(p) + RectH(p) <= last.a.y + H
               /\ (RectX(p) + RectW(p) = last.a.x + W) <=> (RectW(p) = edge(W)
                       /\ RectX(p) = last.a.x + W - edge(W))
               /\ (RectY(p) + RectH(p) = last.a.y + H) <=> (RectH(p) = edge(H)
                       /\ RectY(p) = last.a.y + H - edge(H))
               /\ (RectX(p) + RectW(p) < last.a.x + W) => RectW(p) = T
               /\ (RectY(p) + RectH(p) < last.a.y + H) => RectH(p) = T
           /\ \A k, m \in 1..Len(Written) :
               k # m => Disjoint(Written[k].pkt, Written[m].pkt)
           /\ AreaSum(Written, Len(Written)) = W * H

\* a 257 x 129 buffer at a non-zero origin was sent as 3 x 2 tiles
C2_Witness ==
    /\ last.op = "update_image"
    /\ last.res = "ok"
    /\ last.a.perform_tiling
    /\ last.a.shape = <<MaxDim, TileSize + 1>>
    /\ last.a.x # 0
    /\ Len(Written) = 6

(* C3: the wire holds the packets of the calls in call order: a call leaves   *)
(* what was written before it in place and appends its own packets in the     *)
(* order it handed them to sendall, and the tiles of one update_image are in   *)
(* row-major order: by increasing row origin, and by increasing column origin  *)
(* within a tile row.                                                          *)
C3_CallOrder ==
    /\ Len(wire) >= Len(last.pre.wire)
    /\ SubSeq(wire, 1, Len(last.pre.wire)) = last.pre.wire
    /\ Len(Written) <= Len(last.handed)
    /\ \A k \in 1..Len(Written) :
        /\ Written[k].call = ncalls
        /\ Written[k].pkt = last.handed[k]
    /\ \A k, m \in 1..Len(wire) :
        k < m =>
            /\ wire[k].call <= wire[m].call
            /\ (/\ wire[k].call = wire[m].call
                /\ PacketType(wire[k].pkt) = UpdateImage)
               => \/ RectY(wire[k].pkt) < RectY(wire[m].pkt)
                  \/ /\ RectY(wire[k].pkt) = RectY(wire[m].pkt)
                     /\ RectX(wire[k].pkt) < RectX(wire[m].pkt)

\* the four tiles of a 129 x 129 update, then the packet of a later call
C3_Witness ==
    /\ Len(wire) = 5
    /\ \A k \in 1..4 : wire[k].call = 2 /\ PacketType(wire[k].pkt) = UpdateImage
    /\ RectY(wire[2].pkt) = RectY(wire[1].pkt)
    /\ RectY(wire[3].pkt) > RectY(wire[2].pkt)
    /\ wire[5].call = 3

(* C4: update_image on an open Session with fewer channel names than the       *)
(* buffer has channels (the size of the channel axis, 1 without one) raises    *)
(* the 'not enough channel names' error, hands nothing to sendall, writes      *)
(* nothing, and leaves the Session open on the same connection.                *)
C4_TooFewNames ==
    (/\ last.op = "update_image"
     /\ IsOpen(last.pre.socket, last.pre.sockets)
     /\ Len(last.a.channel_names)
            < (IF Len(last.a.shape) < 3 THEN 1 ELSE last.a.shape[3]))
    => /\ last.res = "ConfigurationError"
       /\ last.handed = <<>>
       /\ wire = last.pre.wire
       /\ _socket = last.pre.socket
       /\ sockets = last.pre.sockets
       /\ IsOpen(_socket, sockets)

\* two names for three channels, on an open Session
C4_Witness ==
    /\ last.op = "update_image"
    /\ IsOpen(last.pre.socket, last.pre.sockets)
    /\ Len(last.a.shape) = 3
    /\ Len(last.a.channel_names) = 2
    /\ last.a.shape[3] = 3
    /\ last.res = "ConfigurationError"

(* C5: __enter__ on a Session that is open raises the 'already started' error, *)
(* creates no socket, and leaves the Session on its connection, still          *)
(* connected.                                                                  *)
C5_DoubleOpen ==
    (last.op = "enter" /\ IsOpen(last.pre.socket, last.pre.sockets))
    => /\ last.res = "StateError"
       /\ Len(sockets) = Len(last.pre.sockets)
       /\ sockets = last.pre.sockets
       /\ _socket = last.pre.socket
       /\ IsOpen(_socket, sockets)

\* a second __enter__ on an open Session was refused
C5_Witness ==
    /\ last.op = "enter"
    /\ IsOpen(last.pre.socket, last.pre.sockets)
    /\ last.res = "StateError"
    /\ Len(sockets) = 1

(* C6: __exit__ on a Session with no open connection raises the 'not started'  *)
(* error and releases nothing, both when the Session was never opened and when *)
(* it was opened and has been closed.                                          *)
C6_CloseWithoutConnection ==
    (/\ last.op = "exit"
     /\ \/ last.pre.socket = 0
        \/ WasClosed(last.pre.socket, last.pre.sockets))
    => /\ last.res = "StateError"
       /\ sockets = last.pre.sockets

(* C7: a command called while the Session is closed, before the first open or  *)
(* after a close, raises the 'not started' error and writes nothing.           *)
C7_CommandWhileClosed ==
    (/\ IsCommand(last.op)
     /\ \/ last.pre.socket = 0
        \/ WasClosed(last.pre.socket, last.pre.sockets))
    => /\ last.res = "StateError"
       /\ last.handed = <<>>
       /\ wire = last.pre.wire

(* C8: no socket is released twice, and once a scoped use is over (__exit__    *)
(* has returned, or __enter__ raised on connect, after which the with          *)
(* statement never calls __exit__) every socket the Session acquired has been  *)
(* released exactly once.                                                      *)
C8_ReleasedExactlyOnce ==
    /\ \A h \in 1..Len(sockets) : sockets[h].released <= 1
    /\ (\/ last.op = "exit" /\ last.res = "ok"
        \/ last.op = "enter" /\ last.res = "IOError")
       => \A h \in 1..Len(sockets) : sockets[h].released = 1

(* C9: a call that raises leaves the Session as it was: open if it was open,   *)
(* closed if it was closed, and an __enter__ whose connect fails leaves the    *)
(* Session holding no socket.                                                  *)
C9_FailedCallKeepsState ==
    (last.res # "ok")
    => /\ IsOpen(_socket, sockets) = IsOpen(last.pre.socket, last.pre.sockets)
       /\ (last.op = "enter" /\ last.res = "IOError") => _socket = 0

(* C10: an untiled update_image of an H x W buffer (H, W >= 1) that returns    *)
(* normally has sent exactly one UpdateImage packet, at the target origin and  *)
(* W wide and H high, also when H or W exceeds the tile size.                  *)
C10_Untiled ==
    (/\ last.op = "update_image"
     /\ last.res = "ok"
     /\ ~last.a.perform_tiling
     /\ last.a.shape[1] >= 1
     /\ last.a.shape[2] >= 1)
    => /\ Len(Written) = 1
       /\ Len(last.handed) = 1
       /\ Written[1].sent = Written[1].pkt[1].v
       /\ PacketType(Written[1].pkt) = UpdateImage
       /\ RectX(Written[1].pkt) = last.a.x
       /\ RectY(Written[1].pkt) = last.a.y
       /\ RectW(Written[1].pkt) = last.a.shape[2]
       /\ RectH(Written[1].pkt) = last.a.shape[1]

\* a 257 x 257 buffer was sent untiled
C10_Witness ==
    /\ last.op = "update_image"
    /\ last.res = "ok"
    /\ ~last.a.perform_tiling
    /\ last.a.shape = <<MaxDim, MaxDim>>
    /\ Len(Written) = 1
    /\ RectW(Written[1].pkt) > TileSize

(* C11: a call of open_image, reload_image, close_image, create_image or       *)
(* update_vector_graphics makes 0 or 1 socket writes; a call of update_image   *)
(* makes its writes one per tile, at most ceil(H/T) * ceil(W/T) of them when   *)
(* tiled and at most 1 when untiled. Every write is the blocking sendall: when *)
(* the call returns normally each packet it handed to the socket is on the     *)
(* wire in full, and when it raises only the last packet handed can be short.  *)
C11_WritesPerCall ==
    IsCommand(last.op)
    => /\ last.op # "update_image" => Len(last.handed) <= 1
       /\ (last.op = "update_image" /\ ~last.a.perform_tiling)
              => Len(last.handed) <= 1
       /\ (last.op = "update_image" /\ last.a.perform_tiling)
              => Len(last.handed) <= CeilDiv(last.a.shape[1], TileSize)
                                         * CeilDiv(last.a.shape[2], TileSize)
       /\ last.res = "ok" => Len(Written) = Len(last.handed)
       /\ \A k \in 1..Len(Written) :
           \/ Written[k].sent = Written[k].pkt[1].v
           \/ k = Len(last.handed) /\ last.res = "IOError"

\* a 129 x 129 update that made four writes and returned with all four on the wire
C11_Witness ==
    /\ last.op = "update_image"
    /\ last.res = "ok"
    /\ last.a.shape = <<TileSize + 1, TileSize + 1, 2>>
    /\ Len(last.handed) = 4
    /\ Len(Written) = 4
    /\ \A k \in 1..4 : Written[k].sent = Written[k].pkt[1].v

\* C11 as first stated: no call of a command makes more than one socket write
C11_AtMostOneWrite ==
    IsCommand(last.op)
    => /\ Len(last.handed) <= 1
       /\ last.res = "ok" => Len(Written) = Len(last.handed)

\* the update_image of the last call is tiled into more than one tile
MultiTile ==
    /\ last.op = "update_image"
    /\ last.a.perform_tiling
    /\ CeilDiv(last.a.shape[1], TileSize) * CeilDiv(last.a.shape[2], TileSize) > 1

\* the transport failed a send of the last call
SendFailed ==
    /\ last.pre.socket # 0
    /\ sockets[last.pre.socket].broken
    /\ ~last.pre.sockets[last.pre.socket].broken

(* C12: in a multi-tile update_image whose k-th send fails with an I/O error,  *)
(* the call handed exactly the first k tiles of the row-major order to the     *)
(* socket, each once (no retry, none after the k-th); tiles 1..k-1 are on the  *)
(* wire in full and in that order, after everything written before the call,   *)
(* which is left as it was; of the k-th tile at most a part is on the wire;    *)
(* and the call raises the I/O error. A send the transport fails always        *)
(* surfaces as that error.                                                     *)
C12_FailedTile ==
    /\ (MultiTile /\ SendFailed) => last.res = "IOError"
    /\ (MultiTile /\ last.res = "IOError")
       => LET k == Len(last.handed)
              cols == CeilDiv(last.a.shape[2], TileSize)
          IN  /\ k >= 1
              /\ k <= CeilDiv(last.a.shape[1], TileSize) * cols
              /\ \A j \in 1..k :
                  /\ RectX(last.handed[j]) = last.a.x + ((j - 1) % cols) * TileSize
                  /\ RectY(last.handed[j]) = last.a.y + ((j - 1) \div cols) * TileSize
              /\ Len(Written) \in {k - 1, k}
              /\ \A j \in 1..(k - 1) :
                  /\ Written[j].pkt = last.handed[j]
                  /\ Written[j].sent = Written[j].pkt[1].v
              /\ Len(Written) = k
                     => /\ Written[k].pkt = last.handed[k]
                        /\ Written[k].sent < Written[k].pkt[1].v
              /\ SubSeq(wire, 1, Len(last.pre.wire)) = last.pre.wire
              /\ Len(wire) = Len(last.pre.wire) + Len(Written)

\* the third tile failed part-way: two tiles in full, then a part of the third
C12_Witness ==
    /\ MultiTile
    /\ SendFailed
    /\ last.res = "IOError"
    /\ Len(last.handed) = 3
    /\ Len(Written) = 3
    /\ Written[2].sent = Written[2].pkt[1].v
    /\ Written[3].sent < Written[3].pkt[1].v

\* the number of float32 parameters of each command tag: the parameters of its
\* constructor
Arity(tag) ==
    CASE tag \in {0, 1, 3, 5, 6, 7, 9} -> 0
      [] tag = 8 -> 1
      [] tag \in {10, 11} -> 2
      [] tag = 15 -> 3
      [] tag \in {2, 4, 16, 17, 18} -> 4
      [] tag \in {12, 19} -> 5
      [] tag \in {13, 14} -> 6
      [] tag = 20 -> 8

\* n command records read from field k of a packet on, as a reader that knows
\* only the tags' arities reads them; ok when they end where the packet ends
RECURSIVE ReadCommands(_, _, _)
ReadCommands(pkt, k, n) ==
    IF n = 0 THEN [ok |-> k = Len(pkt) + 1, cmds |-> <<>>]
    ELSE IF k > Len(pkt) \/ pkt[k].t # "b" \/ pkt[k].v \notin 0..20
    THEN [ok |-> FALSE, cmds |-> <<>>]
    ELSE IF Arity(pkt[k].v) = 0
    THEN LET rest == ReadCommands(pkt, k + 1, n - 1)
         IN  [ok |-> rest.ok,
              cmds |-> <<[type |-> pkt[k].v, values |-> <<>>]>> \o rest.cmds]
    ELSE IF k + 1 > Len(pkt) \/ pkt[k + 1].t # "f" \/ pkt[k + 1].v # Arity(pkt[k].v)
    THEN [ok |-> FALSE, cmds |-> <<>>]
    ELSE LET rest == ReadCommands(pkt, k + 2, n - 1)
         IN  [ok |-> rest.ok,
              cmds |-> <<[type |-> pkt[k].v, values |-> pkt[k + 1].values]>> \o rest.cmds]

\* the bytes of the records of a command list: a tag byte and 4 bytes a float
RECURSIVE RecordBytes(_)
RecordBytes(cs) ==
    IF cs = <<>> THEN 0 ELSE 1 + 4 * Arity(Head(cs).type) + RecordBytes(Tail(cs))

(* C13: update_vector_graphics hands exactly one packet to the socket for any  *)
(* list of commands made by the constructors: a VectorGraphics packet (tag 8)  *)
(* whose commandCount is the length of the list and whose body is, in list     *)
(* order, one record per command: the command's tag and then as many float32   *)
(* values as its constructor has parameters, and nothing else (the packet is   *)
(* 12 bytes and the name, plus 1 + 4 * arity bytes per command). The list      *)
(* [begin_path, rect(0,0,64,64), stroke] gives count 3, tag 6, tag 18 with the *)
(* four floats 0, 0, 64, 64, and tag 5.                                        *)
C13_CommandRecords ==
    (last.op = "update_vector_graphics" /\ last.res \in {"ok", "IOError"})
    => /\ Len(last.handed) = 1
       /\ last.res = "ok" => Len(Written) = 1 /\ Written[1].pkt = last.handed[1]
       /\ LET pkt == last.handed[1]
              cs == last.a.commands
              read == ReadCommands(pkt, 8, pkt[7].v)
          IN  /\ PacketType(pkt) = 8
              /\ pkt[7].t = "I"
              /\ pkt[7].v = Len(cs)
              /\ read.ok
              /\ Len(read.cmds) = Len(cs)
              /\ \A i \in 1..Len(cs) :
                  /\ read.cmds[i].type = cs[i].type
                  /\ Len(read.cmds[i].values) = Arity(cs[i].type)
                  /\ read.cmds[i].values = cs[i].data
              /\ pkt[1].v = 12 + Len(Utf8(last.a.name)) + RecordBytes(cs)
              /\ cs = Example
                 => /\ Len(pkt) = 11
                    /\ pkt[7].v = 3
                    /\ pkt[8] = [t |-> "b", v |-> 6]
                    /\ pkt[9] = [t |-> "b", v |-> 18]
                    /\ pkt[10].t = "f" /\ pkt[10].v = 4
                    /\ pkt[10].values = <<0, 0, 64, 64>>
                    /\ pkt[11] = [t |-> "b", v |-> 5]

\* the example list behind a one-byte name has been written in full, 32 bytes,
\* as the first packet of a connection
C13_Witness ==
    /\ last.op = "update_vector_graphics"
    /\ last.res = "ok"
    /\ last.a.commands = Example
    /\ Len(Written) = 1
    /\ Written[1].pkt[7].v = 3
    /\ Written[1].sent = 12 + 1 + 19

(* C14: every UpdateImage packet that update_image hands to the socket for a   *)
(* buffer of two or three axes ([row][col], or [row][col][channel]) agrees     *)
(* with the channel count n (the size of the channel axis, 1 without one): its *)
(* channelCount is n; n names follow, the first n of the supplied list, each   *)
(* with its terminator; then x, y, width, height; then n offsets 0, 1, ...,    *)
(* n-1; then n strides, all n; then width * height * n pixel values, and       *)
(* nothing more.                                                               *)
C14_ChannelsConsistent ==
    (last.op = "update_image" /\ Len(last.a.shape) <= 3)
    => LET n == IF Len(last.a.shape) < 3 THEN 1 ELSE last.a.shape[3] IN
       \A m \in 1..Len(last.handed) :
           LET pkt == last.handed[m] IN
           /\ PacketType(pkt) = UpdateImage
           /\ pkt[6] = [t |-> "i", v |-> n]
           /\ Len(pkt) = 6 + 2 * n + 4 + 2 * n + 1
           /\ \A k \in 1..n :
               /\ pkt[5 + 2 * k] = [t |-> "s", v |-> Utf8(last.a.channel_names[k])]
               /\ pkt[6 + 2 * k] = [t |-> "b", v |-> 0]
           /\ \A k \in 1..4 : pkt[6 + 2 * n + k].t = "i"
           /\ \A k \in 1..n :
               /\ pkt[10 + 2 * n + k] = [t |-> "q", v |-> k - 1]
               /\ pkt[10 + 3 * n + k] = [t |-> "q", v |-> n]
           /\ pkt[Len(pkt)] = [t |-> "f", v |-> RectW(pkt) * RectH(pkt) * n]

\* the last tile, 1 x 1, of a 129 x 129 buffer of two channels sent with three
\* names: two names, offsets 0 and 1, strides 2 and 2, two pixel values
C14_Witness ==
    /\ last.op = "update_image"
    /\ last.res = "ok"
    /\ last.a.shape = <<TileSize + 1, TileSize + 1, 2>>
    /\ Len(last.a.channel_names) = 3
    /\ Len(Written) = 4
    /\ ChannelCount(Written[4].pkt) = 2
    /\ RectW(Written[4].pkt) = 1
    /\ Written[4].pkt[Len(Written[4].pkt)].v = 2

====
